---------------------------- MODULE Spec2Model ----------------------------
(***************************************************************************)
(* Group membership, ownership succession and the user-removal cascade of  *)
(* the school social platform server.                                      *)
(*                                                                         *)
(* The state is the content of the relational tables the handlers read and *)
(* write.  In most specifications every handler is one action: the calls   *)
(* run one after another, each to completion.  SpecConcurrent runs         *)
(* joinGroup and leaveGroup one statement at a time, as the handlers issue *)
(* them on the connection pool without a transaction, so that statements   *)
(* of different requests interleave.  Wall-clock columns of users, groups  *)
(* and memberships (created_at, joined_at, updated_at) and free-text       *)
(* columns that no handler branches on are not represented; posts and      *)
(* comments carry updated_at as a logical stamp (Created / Touched).       *)
(* Rows returned by a SELECT without ORDER BY come in an order the storage *)
(* chooses, so "the first row found" is a nondeterministic choice.         *)
(***************************************************************************)
EXTENDS Integers, FiniteSets, Sequences, TLC

\* ------------------------------------------------------------------ bounds
NumUsers == 3
MaxGroups == 1
MaxMemberships == 2
MaxMessages == 2
MaxPosts == 1
MaxComments == 1
MaxCalls == 2
MaxLikes == 2

\* An id that no row has (the tests use 999 for "no such user").
MissingId == 999

UserIds == 1..NumUsers
GroupIds == 1..MaxGroups
UserInputs == UserIds \cup {MissingId}
CallIds == 1..MaxCalls

Created == 0
Touched == 1

VARIABLES users, groups, memberships, messages, posts, comments, likes,
          nextGroupId, nextMembershipId, nextMessageId, nextPostId,
          nextCommentId, nextLikeId, last, calls

vars == <<users, groups, memberships, messages, posts, comments, likes,
          nextGroupId, nextMembershipId, nextMessageId, nextPostId,
          nextCommentId, nextLikeId, last, calls>>

tables == <<users, groups, memberships, messages, posts, comments>>

\* ------------------------------------------------------------------ schema
\* users.role of the seeded accounts: one admin, then student, teacher, ...
RoleOf(u) ==
  IF u = 1 THEN "admin"
  ELSE IF u = 2 THEN "student"
  ELSE IF u = 3 THEN "teacher"
  ELSE "alumni"

usersTable == [u \in UserIds |-> [role |-> RoleOf(u), is_active |-> TRUE]]

UserExists(u) == u \in DOMAIN users
GroupExists(g) == g \in DOMAIN groups

\* group_memberships rows of one group / of one (group, user) pair
RowsOfGroup(g) == {m \in memberships : m.group_id = g}
RowsOfPair(g, u) == {m \in memberships : m.group_id = g /\ m.user_id = u}
IsMember(g, u) == RowsOfPair(g, u) # {}

NoTransfer == [g \in GroupIds |-> "none"]

\* The most recent call: the handler, its two arguments, how it ended, the
\* branch the ownership handling took for each group, and the groups in
\* which the call deleted membership rows of the departing user.
Called(op, a, b, result, transfer, left) ==
  [op |-> op, a |-> a, b |-> b, result |-> result, transfer |-> transfer,
   left |-> left]

\* A call that threw: the handler and the error.
Failed(op, error) == Called(op, 0, 0, error, NoTransfer, {})

\* A request in flight: the handler, its arguments, the statement it is
\* about to issue, and what its earlier SELECTs returned (the owner_id of
\* the group row, the row picked as the new owner).
Idle ==
  [op |-> "none", group_id |-> 0, user_id |-> 0, pc |-> "idle",
   owner_id |-> 0, first_id |-> 0, first_user |-> 0, post_id |-> 0,
   likes_count |-> 0]

Rank(u, S) == Cardinality({v \in S : v < u})

\* A group as the test fixtures seed it: the owner enrolled as admin, other
\* members with either admin flag, member_count equal to the row count.
SeededGroup(owner, others, admins) ==
  /\ groups = [g \in {1} |-> [owner_id |-> owner,
                              member_count |-> 1 + Cardinality(others)]]
  /\ memberships =
       {[id |-> 1, group_id |-> 1, user_id |-> owner, is_admin |-> TRUE]}
       \cup {[id |-> 2 + Rank(u, others), group_id |-> 1, user_id |-> u,
              is_admin |-> (u \in admins)] : u \in others}
  /\ nextGroupId = 2
  /\ nextMembershipId = 2 + Cardinality(others)

EmptyGroups ==
  /\ groups = << >>
  /\ memberships = {}
  /\ nextGroupId = 1
  /\ nextMembershipId = 1

Init ==
  /\ users = usersTable
  /\ \/ EmptyGroups
     \/ \E owner \in UserIds :
          \E others \in SUBSET (UserIds \ {owner}) :
            \E admins \in SUBSET others :
              SeededGroup(owner, others, admins)
  /\ messages = {}
  /\ posts = << >>
  /\ comments = << >>
  /\ likes = {}
  /\ nextMessageId = 1
  /\ nextPostId = 1
  /\ nextCommentId = 1
  /\ nextLikeId = 1
  /\ last = Called("init", 0, 0, "ok", NoTransfer, {})
  /\ calls = [c \in CallIds |-> Idle]

\* -------------------------------------------------------------- createGroup
\* the owner enrolled with is_admin left at the column default
ownerMembershipAsMember(groupId, ownerId) ==
  [id |-> nextMembershipId, group_id |-> groupId, user_id |-> ownerId,
   is_admin |-> FALSE]

\* The row createGroup inserts for the owner.
ownerMembership(groupId, ownerId) ==
  [id |-> nextMembershipId, group_id |-> groupId, user_id |-> ownerId,
   is_admin |-> TRUE]

\* The groups table after the INSERT of the new group.
groupInserted(ownerId) ==
  [g \in DOMAIN groups \cup {nextGroupId} |->
     IF g = nextGroupId
     THEN [owner_id |-> ownerId, member_count |-> 1]
     ELSE groups[g]]

createGroup(ownerId) ==
  /\ nextGroupId <= MaxGroups
  /\ nextMembershipId <= MaxMemberships
  /\ IF ~UserExists(ownerId)
     THEN \* owner_id violates the foreign key: the transaction rolls back
          /\ last' = Failed("createGroup", "ForeignKeyViolation")
          /\ UNCHANGED <<groups, memberships, nextGroupId, nextMembershipId>>
     ELSE /\ groups' = groupInserted(ownerId)
          /\ memberships' = memberships \cup
               {ownerMembership(nextGroupId, ownerId)}
          /\ nextGroupId' = nextGroupId + 1
          /\ nextMembershipId' = nextMembershipId + 1
          /\ last' = Called("createGroup", ownerId, nextGroupId, "ok",
                            NoTransfer, {})
  /\ UNCHANGED <<users, messages, posts, comments, nextMessageId,
                 nextPostId, nextCommentId, likes, nextLikeId>>
  /\ UNCHANGED calls

\* ---------------------------------------------------------------- joinGroup
\* the already-a-member lookup seeing only rows with is_admin = false
existingMembershipNonAdmin(groupId, userId) ==
  {m \in memberships : m.group_id = groupId /\ m.user_id = userId
                         /\ ~m.is_admin}

existingMembership(groupId, userId) ==
  {m \in memberships : m.group_id = groupId /\ m.user_id = userId}

\* the inserted row carrying is_admin = true
newMembershipAsAdmin(groupId, userId) ==
  [id |-> nextMembershipId, group_id |-> groupId, user_id |-> userId,
   is_admin |-> TRUE]

\* The row joinGroup inserts; id is the next value of the serial column.
newMembership(groupId, userId) ==
  [id |-> nextMembershipId, group_id |-> groupId, user_id |-> userId,
   is_admin |-> FALSE]

joinGroup(groupId, userId) ==
  /\ IF ~UserExists(userId)
     THEN /\ last' = Failed("joinGroup", "UserNotFound")
          /\ UNCHANGED <<groups, memberships, nextMembershipId>>
     ELSE IF ~GroupExists(groupId)
     THEN /\ last' = Failed("joinGroup", "GroupNotFound")
          /\ UNCHANGED <<groups, memberships, nextMembershipId>>
     ELSE IF existingMembership(groupId, userId) # {}
     THEN /\ last' = Failed("joinGroup", "AlreadyMember")
          /\ UNCHANGED <<groups, memberships, nextMembershipId>>
     ELSE /\ nextMembershipId <= MaxMemberships
          /\ memberships' = memberships \cup
               {newMembership(groupId, userId)}
          /\ nextMembershipId' = nextMembershipId + 1
          /\ groups' = [groups EXCEPT ![groupId].member_count = @ + 1]
          /\ last' = Called("joinGroup", groupId, userId, "ok", NoTransfer, {})
  /\ UNCHANGED <<users, messages, posts, comments, nextGroupId,
                 nextMessageId, nextPostId, nextCommentId, likes, nextLikeId>>
  /\ UNCHANGED calls

\* --------------------------------------------------------------- leaveGroup
\* otherAdmins without the is_admin filter
otherAdminsAnyRole(groupId, userId) ==
  {m \in memberships : m.group_id = groupId /\ m.user_id # userId}
otherAdmins(groupId, userId) ==
  {m \in memberships : m.group_id = groupId /\ m.is_admin
                         /\ m.user_id # userId}
\* otherMembers without the user_id filter
otherMembersWithSelf(groupId, userId) ==
  {m \in memberships : m.group_id = groupId}
otherMembers(groupId, userId) ==
  {m \in memberships : m.group_id = groupId /\ m.user_id # userId}

\* the promotion left out
PromoteSkipped(ms, rowId) == ms
Promote(ms, rowId) ==
  {IF m.id = rowId THEN [m EXCEPT !.is_admin = TRUE] ELSE m : m \in ms}

\* the membership delete left out
RemovePairSkipped(ms, groupId, userId) == ms
RemovePair(ms, groupId, userId) ==
  {m \in ms : ~(m.group_id = groupId /\ m.user_id = userId)}

\* the member_count update left out
DecrementSkipped(n) == n
Decrement(n) == n - 1

\* the membership lookup made before the user and group lookups
leaveGroupChecksMembershipFirst(groupId, userId) ==
  IF ~IsMember(groupId, userId) THEN "NotAMember"
  ELSE IF ~UserExists(userId) THEN "UserNotFound"
  ELSE IF ~GroupExists(groupId) THEN "GroupNotFound"
  ELSE "ok"

\* The three lookups leaveGroup starts with: the error of the first that
\* finds nothing, "ok" when all find a row.
leaveGroupChecks(groupId, userId) ==
  IF ~UserExists(userId) THEN "UserNotFound"
  ELSE IF ~GroupExists(groupId) THEN "GroupNotFound"
  ELSE IF ~IsMember(groupId, userId) THEN "NotAMember"
  ELSE "ok"

\* every leaving member taken for the owner
isOwnerAlways(groupId, userId) == TRUE

isOwner(groupId, userId) == groups[groupId].owner_id = userId

leaveGroup(groupId, userId) ==
  /\ IF leaveGroupChecks(groupId, userId) # "ok"
     THEN /\ last' = Failed("leaveGroup", leaveGroupChecks(groupId, userId))
          /\ UNCHANGED <<groups, memberships>>
     ELSE IF ~isOwner(groupId, userId)
     THEN /\ memberships' = RemovePair(memberships, groupId, userId)
          /\ groups' = [groups EXCEPT
                          ![groupId].member_count = Decrement(@)]
          /\ last' = Called("leaveGroup", groupId, userId, "ok", NoTransfer,
                            {groupId})
     ELSE IF otherAdmins(groupId, userId) # {}
     THEN \E first \in otherAdmins(groupId, userId) :
            /\ memberships' = RemovePair(memberships, groupId, userId)
            /\ groups' = [groups EXCEPT
                            ![groupId].owner_id = first.user_id,
                            ![groupId].member_count = Decrement(@)]
            /\ last' = Called("leaveGroup", groupId, userId, "ok",
                              [NoTransfer EXCEPT ![groupId] = "admin"],
                              {groupId})
     ELSE IF otherMembers(groupId, userId) # {}
     THEN \E first \in otherMembers(groupId, userId) :
            /\ memberships' =
                 RemovePair(Promote(memberships, first.id), groupId, userId)
            /\ groups' = [groups EXCEPT
                            ![groupId].owner_id = first.user_id,
                            ![groupId].member_count = Decrement(@)]
            /\ last' = Called("leaveGroup", groupId, userId, "ok",
                              [NoTransfer EXCEPT ![groupId] = "promote"],
                              {groupId})
     ELSE \* no other member: the group row stays, owner_id unchanged
          /\ memberships' = RemovePair(memberships, groupId, userId)
          /\ groups' = [groups EXCEPT
                          ![groupId].member_count = Decrement(@)]
          /\ last' = Called("leaveGroup", groupId, userId, "ok",
                            [NoTransfer EXCEPT ![groupId] = "ownerless"],
                            {groupId})
  /\ UNCHANGED <<users, messages, posts, comments, nextGroupId,
                 nextMembershipId, nextMessageId, nextPostId, nextCommentId,
                 likes, nextLikeId>>
  /\ UNCHANGED calls

\* --------------------------------------------------------------- deleteUser
ownedGroups(userId) == {g \in DOMAIN groups : groups[g].owner_id = userId}

\* adminMembers without the is_admin filter
adminMembersAnyRole(groupId, userId) ==
  {m \in memberships : m.group_id = groupId /\ m.user_id # userId}
adminMembers(groupId, userId) ==
  {m \in memberships : m.group_id = groupId /\ m.is_admin
                         /\ m.user_id # userId}
anyMember(groupId, userId) ==
  {m \in memberships : m.group_id = groupId /\ m.user_id # userId}

\* Which branch of the ownership loop a group owned by userId takes.
Branch(groupId, userId) ==
  IF adminMembers(groupId, userId) # {} THEN "admin"
  ELSE IF anyMember(groupId, userId) # {} THEN "promote"
  ELSE "delete"

\* first is one choice of "the first row found" for every owned group
\* that has another member.
FirstFound(first, userId) ==
  \A g \in DOMAIN first :
    IF Branch(g, userId) = "admin" THEN first[g] \in adminMembers(g, userId)
    ELSE first[g] \in anyMember(g, userId)

Heirs(userId) == {g \in ownedGroups(userId) : Branch(g, userId) # "delete"}

\* the ownership loop without the delete of a group nobody is left in
GroupsAfterTransferKeepingEmpty(first, userId) ==
  [g \in DOMAIN groups |->
     IF g \in DOMAIN first
     THEN [groups[g] EXCEPT !.owner_id = first[g].user_id]
     ELSE groups[g]]

\* Step 2: groups and memberships after the ownership loop.
GroupsAfterTransfer(first, userId) ==
  [g \in DOMAIN groups \ (ownedGroups(userId) \ DOMAIN first) |->
     IF g \in DOMAIN first
     THEN [groups[g] EXCEPT !.owner_id = first[g].user_id]
     ELSE groups[g]]

MembershipsAfterTransfer(first, userId) ==
  LET promoted == {first[g].id : g \in {h \in DOMAIN first :
                                          Branch(h, userId) = "promote"}}
      kept == {m \in memberships :
                 m.group_id \notin (ownedGroups(userId) \ DOMAIN first)}
  IN {IF m.id \in promoted THEN [m EXCEPT !.is_admin = TRUE] ELSE m :
        m \in kept}

\* step 3 restricted to the groups the user owned
RemoveUserFromOwned(ms, userId) ==
  {m \in ms : ~(m.user_id = userId /\ m.group_id \in DOMAIN groups
                                     /\ groups[m.group_id].owner_id = userId)}

\* Step 3: delete from group_memberships where user_id = userId
RemoveUser(ms, userId) == {m \in ms : m.user_id # userId}
RemovedRows(userId) == {m \in memberships : m.user_id = userId}

\* Step 4: member_count = (select count(*) ...) for every group
Recount(gs, ms) ==
  [g \in DOMAIN gs |->
     [gs[g] EXCEPT !.member_count =
        Cardinality({m \in ms : m.group_id = g})]]

\* step 5 without the delete by recipient_id
RemoveSentMessages(msgs, userId) == {m \in msgs : m.sender_id # userId}

\* Step 5: both deletes on private_messages
RemoveMessages(msgs, userId) ==
  {m \in msgs : m.sender_id # userId /\ m.recipient_id # userId}

\* step 6 deleting the rows the user authored
Purge(rows, userId) ==
  [i \in {j \in DOMAIN rows : rows[j].author_id # userId} |-> rows[i]]

\* Step 6: set updated_at on the rows the user authored
Touch(rows, userId) ==
  [i \in DOMAIN rows |->
     IF rows[i].author_id = userId
     THEN [rows[i] EXCEPT !.updated_at = Touched]
     ELSE rows[i]]

\* the admin check without is_active
AuthorizedInactive(adminId) ==
  /\ UserExists(adminId)
  /\ users[adminId].role = "admin"

Authorized(adminId) ==
  /\ UserExists(adminId)
  /\ users[adminId].role = "admin"
  /\ users[adminId].is_active

\* the role check on the target left out
TargetIsAdminUnchecked(userId) == FALSE

TargetIsAdmin(userId) == users[userId].role = "admin"

\* The handler's effect on the tables and on the record of the last call.
deleteUserEffect(userId, adminId) ==
  /\ IF ~Authorized(adminId)
     THEN /\ last' = Failed("deleteUser", "Unauthorized")
          /\ UNCHANGED tables
     ELSE IF ~UserExists(userId)
     THEN /\ last' = Failed("deleteUser", "UserNotFound")
          /\ UNCHANGED tables
     ELSE IF TargetIsAdmin(userId)
     THEN /\ last' = Failed("deleteUser", "CannotDeleteAdmin")
          /\ UNCHANGED tables
     ELSE \E first \in [Heirs(userId) -> memberships] :
            /\ FirstFound(first, userId)
            /\ users' = [users EXCEPT ![userId].is_active = FALSE]
            /\ memberships' =
                 RemoveUser(MembershipsAfterTransfer(first, userId), userId)
            /\ groups' = Recount(GroupsAfterTransfer(first, userId),
                                 memberships')
            /\ messages' = RemoveMessages(messages, userId)
            /\ posts' = Touch(posts, userId)
            /\ comments' = Touch(comments, userId)
            /\ last' = Called("deleteUser", userId, adminId, "ok",
                              [g \in GroupIds |->
                                 IF g \in ownedGroups(userId)
                                 THEN Branch(g, userId) ELSE "none"],
                              {m.group_id : m \in RemovedRows(userId)})
  /\ UNCHANGED <<nextGroupId, nextMembershipId, nextMessageId, nextPostId,
                 nextCommentId, likes, nextLikeId>>

deleteUser(userId, adminId) ==
  /\ deleteUserEffect(userId, adminId)
  /\ UNCHANGED calls

\* ------------------------------------------- deleteUser, a statement failing
\* The statements of the transaction, in order: 1 deactivate, 2 ownership
\* loop, 3 membership delete, 4 recount, 5 message deletes, 6 posts touch,
\* 7 comments touch.
CascadeStatements == 1..7

Snapshot ==
  [users |-> users, groups |-> groups, memberships |-> memberships,
   messages |-> messages, posts |-> posts, comments |-> comments]

\* What the transaction has written when statement number step throws.
WrittenBefore(step, first, userId) ==
  LET gs2 == GroupsAfterTransfer(first, userId)
      ms2 == MembershipsAfterTransfer(first, userId)
      ms3 == RemoveUser(ms2, userId)
  IN [users |-> IF step > 1
                THEN [users EXCEPT ![userId].is_active = FALSE]
                ELSE users,
      groups |-> IF step > 4 THEN Recount(gs2, ms3)
                 ELSE IF step > 2 THEN gs2
                 ELSE groups,
      memberships |-> IF step > 3 THEN ms3
                      ELSE IF step > 2 THEN ms2
                      ELSE memberships,
      messages |-> IF step > 5 THEN RemoveMessages(messages, userId)
                   ELSE messages,
      posts |-> IF step > 6 THEN Touch(posts, userId) ELSE posts,
      comments |-> comments]

\* the statements run outside the transaction: what was written stays
RollbackKeepsWritten(before, written) == written

\* db.transaction rolls back when its callback throws.
Rollback(before, written) == before

\* deleteUser whose statement number step throws inside the transaction.
deleteUserStorageError(userId, adminId, step) ==
  /\ Authorized(adminId)
  /\ UserExists(userId)
  /\ ~TargetIsAdmin(userId)
  /\ \E first \in [Heirs(userId) -> memberships] :
       /\ FirstFound(first, userId)
       /\ LET after == Rollback(Snapshot, WrittenBefore(step, first, userId))
          IN /\ users' = after.users
             /\ groups' = after.groups
             /\ memberships' = after.memberships
             /\ messages' = after.messages
             /\ posts' = after.posts
             /\ comments' = after.comments
  /\ last' = Called("deleteUser", userId, step, "StorageError", NoTransfer, {})
  /\ UNCHANGED <<nextGroupId, nextMembershipId, nextMessageId, nextPostId,
                 nextCommentId, likes, nextLikeId>>
  /\ UNCHANGED calls

\* ------------------------------------------- leaveGroup, a statement failing
\* The writes of leaveGroup, in the order the handler issues them; first is
\* the row the handler picked as the new owner.
leaveGroupWrites(groupId, userId, first) ==
  LET del == [kind |-> "delete", group_id |-> groupId, user_id |-> userId]
      dec == [kind |-> "decrement", group_id |-> groupId, user_id |-> userId]
      own == [kind |-> "owner", group_id |-> groupId,
              user_id |-> first.user_id]
      adm == [kind |-> "promote", group_id |-> first.id,
              user_id |-> first.user_id]
  IN IF ~isOwner(groupId, userId) THEN <<del, dec>>
     ELSE IF otherAdmins(groupId, userId) # {} THEN <<own, del, dec>>
     ELSE IF otherMembers(groupId, userId) # {} THEN <<own, adm, del, dec>>
     ELSE <<del, dec>>

\* The rows "the first row found" can be for this call.
leaveGroupFirst(groupId, userId) ==
  IF otherAdmins(groupId, userId) # {} THEN otherAdmins(groupId, userId)
  ELSE IF otherMembers(groupId, userId) # {} THEN otherMembers(groupId, userId)
  ELSE RowsOfPair(groupId, userId)

\* One statement applied to the groups and group_memberships tables.
Execute(w, db) ==
  IF w.kind = "owner"
  THEN [db EXCEPT !.groups =
          [g \in DOMAIN db.groups |->
             IF g = w.group_id
             THEN [db.groups[g] EXCEPT !.owner_id = w.user_id]
             ELSE db.groups[g]]]
  ELSE IF w.kind = "promote"
  THEN [db EXCEPT !.memberships = Promote(db.memberships, w.group_id)]
  ELSE IF w.kind = "delete"
  THEN [db EXCEPT !.memberships =
          RemovePair(db.memberships, w.group_id, w.user_id)]
  ELSE [db EXCEPT !.groups =
          [g \in DOMAIN db.groups |->
             IF g = w.group_id
             THEN [db.groups[g] EXCEPT !.member_count = Decrement(@)]
             ELSE db.groups[g]]]

RECURSIVE ExecuteAll(_, _)
ExecuteAll(ws, db) ==
  IF ws = << >> THEN db
  ELSE ExecuteAll(Tail(ws), Execute(Head(ws), db))

\* leaveGroup whose write number step throws: the handler opens no
\* transaction, so the writes before it are committed.
leaveGroupStorageError(groupId, userId, step) ==
  /\ leaveGroupChecks(groupId, userId) = "ok"
  /\ \E first \in leaveGroupFirst(groupId, userId) :
       LET ws == leaveGroupWrites(groupId, userId, first)
           db == ExecuteAll(SubSeq(ws, 1, step - 1),
                            [groups |-> groups, memberships |-> memberships])
       IN /\ step \in 1..Len(ws)
          /\ groups' = db.groups
          /\ memberships' = db.memberships
  /\ last' = Called("leaveGroup", groupId, userId, "StorageError",
                    NoTransfer, {})
  /\ UNCHANGED <<users, messages, posts, comments, nextGroupId,
                 nextMembershipId, nextMessageId, nextPostId, nextCommentId,
                 likes, nextLikeId>>
  /\ UNCHANGED calls

\* ------------------------------------------ createGroup, a statement failing
\* createGroup whose statement number step throws inside the transaction:
\* 1 the INSERT of the group, 2 the INSERT of the owner's membership.  The
\* rows are rolled back; the value the first INSERT drew from the serial
\* sequence of groups.id is not handed out again.
createGroupStorageError(ownerId, step) ==
  /\ nextGroupId <= MaxGroups
  /\ UserExists(ownerId)
  /\ LET written == [Snapshot EXCEPT
                       !.groups = IF step > 1 THEN groupInserted(ownerId)
                                  ELSE groups]
         after == Rollback(Snapshot, written)
     IN /\ groups' = after.groups
        /\ memberships' = after.memberships
        /\ users' = after.users
        /\ messages' = after.messages
        /\ posts' = after.posts
        /\ comments' = after.comments
  /\ nextGroupId' = IF step > 1 THEN nextGroupId + 1 ELSE nextGroupId
  /\ last' = Called("createGroup", ownerId, step, "StorageError",
                    NoTransfer, {})
  /\ UNCHANGED <<nextMembershipId, nextMessageId, nextPostId, nextCommentId,
                 likes, nextLikeId>>
  /\ UNCHANGED calls

\* ------------------------------------------------ requests run concurrently
\* Request slot c is unused, and so is no slot before it.
Free(c) ==
  /\ calls[c].pc = "idle"
  /\ \A d \in CallIds : d < c => calls[d].pc # "idle"

InFlight(c, op, pc) == calls[c].op = op /\ calls[c].pc = pc

Starts(c, op, groupId, userId) ==
  calls' = [calls EXCEPT ![c] = [Idle EXCEPT !.op = op,
                                              !.group_id = groupId,
                                              !.user_id = userId,
                                              !.pc = "group"]]

Goto(c, pc) == calls' = [calls EXCEPT ![c].pc = pc]

\* The request returns to its caller, with a value or with an error.
Returns(c, op, groupId, userId, result) ==
  /\ calls' = [calls EXCEPT ![c] = [Idle EXCEPT !.pc = "done"]]
  /\ last' = IF result = "ok"
             THEN Called(op, groupId, userId, "ok", NoTransfer, {})
             ELSE Failed(op, result)

\* UPDATE groups SET member_count = member_count + d WHERE id = groupId
AddToCount(groupId, d) ==
  [g \in DOMAIN groups |->
     IF g = groupId
     THEN [groups[g] EXCEPT !.member_count = @ + d]
     ELSE groups[g]]

\* UPDATE groups SET owner_id = userId WHERE id = groupId
SetOwner(groupId, userId) ==
  [g \in DOMAIN groups |->
     IF g = groupId
     THEN [groups[g] EXCEPT !.owner_id = userId]
     ELSE groups[g]]

\* joinGroup, statement by statement
joinGroupSelectUser(c, groupId, userId) ==
  /\ Free(c)
  /\ IF ~UserExists(userId)
     THEN Returns(c, "joinGroup", groupId, userId, "UserNotFound")
     ELSE Starts(c, "joinGroup", groupId, userId) /\ UNCHANGED last
  /\ UNCHANGED <<tables, nextGroupId, nextMembershipId, nextMessageId,
                 nextPostId, nextCommentId, likes, nextLikeId>>

joinGroupSelectGroup(c) ==
  /\ InFlight(c, "joinGroup", "group")
  /\ IF ~GroupExists(calls[c].group_id)
     THEN Returns(c, "joinGroup", calls[c].group_id, calls[c].user_id,
                  "GroupNotFound")
     ELSE Goto(c, "member") /\ UNCHANGED last
  /\ UNCHANGED <<tables, nextGroupId, nextMembershipId, nextMessageId,
                 nextPostId, nextCommentId, likes, nextLikeId>>

joinGroupSelectMembership(c) ==
  /\ InFlight(c, "joinGroup", "member")
  /\ IF existingMembership(calls[c].group_id, calls[c].user_id) # {}
     THEN Returns(c, "joinGroup", calls[c].group_id, calls[c].user_id,
                  "AlreadyMember")
     ELSE Goto(c, "insert") /\ UNCHANGED last
  /\ UNCHANGED <<tables, nextGroupId, nextMembershipId, nextMessageId,
                 nextPostId, nextCommentId, likes, nextLikeId>>

joinGroupInsert(c) ==
  /\ InFlight(c, "joinGroup", "insert")
  /\ IF ~GroupExists(calls[c].group_id)
     THEN \* the group was deleted meanwhile: group_id violates the key
          /\ Returns(c, "joinGroup", calls[c].group_id, calls[c].user_id,
                     "ForeignKeyViolation")
          /\ UNCHANGED <<memberships, nextMembershipId>>
     ELSE /\ memberships' = memberships \cup
               {newMembership(calls[c].group_id, calls[c].user_id)}
          /\ nextMembershipId' = nextMembershipId + 1
          /\ Goto(c, "count")
          /\ UNCHANGED last
  /\ UNCHANGED <<users, groups, messages, posts, comments, nextGroupId,
                 nextMessageId, nextPostId, nextCommentId, likes, nextLikeId>>

joinGroupIncrement(c) ==
  /\ InFlight(c, "joinGroup", "count")
  /\ groups' = AddToCount(calls[c].group_id, 1)
  /\ Returns(c, "joinGroup", calls[c].group_id, calls[c].user_id, "ok")
  /\ UNCHANGED <<users, memberships, messages, posts, comments, nextGroupId,
                 nextMembershipId, nextMessageId, nextPostId, nextCommentId,
                 likes, nextLikeId>>

\* leaveGroup, statement by statement
leaveGroupSelectUser(c, groupId, userId) ==
  /\ Free(c)
  /\ IF ~UserExists(userId)
     THEN Returns(c, "leaveGroup", groupId, userId, "UserNotFound")
     ELSE Starts(c, "leaveGroup", groupId, userId) /\ UNCHANGED last
  /\ UNCHANGED <<tables, nextGroupId, nextMembershipId, nextMessageId,
                 nextPostId, nextCommentId, likes, nextLikeId>>

leaveGroupSelectGroup(c) ==
  /\ InFlight(c, "leaveGroup", "group")
  /\ IF ~GroupExists(calls[c].group_id)
     THEN Returns(c, "leaveGroup", calls[c].group_id, calls[c].user_id,
                  "GroupNotFound")
     ELSE /\ calls' = [calls EXCEPT
                         ![c].pc = "member",
                         ![c].owner_id = groups[calls[c].group_id].owner_id]
          /\ UNCHANGED last
  /\ UNCHANGED <<tables, nextGroupId, nextMembershipId, nextMessageId,
                 nextPostId, nextCommentId, likes, nextLikeId>>

\* isOwner compares with the group row read by the statement before.
leaveGroupSelectMembership(c) ==
  /\ InFlight(c, "leaveGroup", "member")
  /\ IF ~IsMember(calls[c].group_id, calls[c].user_id)
     THEN Returns(c, "leaveGroup", calls[c].group_id, calls[c].user_id,
                  "NotAMember")
     ELSE /\ Goto(c, IF calls[c].owner_id = calls[c].user_id
                     THEN "admins" ELSE "delete")
          /\ UNCHANGED last
  /\ UNCHANGED <<tables, nextGroupId, nextMembershipId, nextMessageId,
                 nextPostId, nextCommentId, likes, nextLikeId>>

leaveGroupSelectAdmins(c) ==
  /\ InFlight(c, "leaveGroup", "admins")
  /\ IF otherAdmins(calls[c].group_id, calls[c].user_id) # {}
     THEN \E first \in otherAdmins(calls[c].group_id, calls[c].user_id) :
            calls' = [calls EXCEPT ![c].pc = "ownerToAdmin",
                                   ![c].first_id = first.id,
                                   ![c].first_user = first.user_id]
     ELSE Goto(c, "members")
  /\ UNCHANGED <<tables, last, nextGroupId, nextMembershipId, nextMessageId,
                 nextPostId, nextCommentId, likes, nextLikeId>>

leaveGroupSelectMembers(c) ==
  /\ InFlight(c, "leaveGroup", "members")
  /\ IF otherMembers(calls[c].group_id, calls[c].user_id) # {}
     THEN \E first \in otherMembers(calls[c].group_id, calls[c].user_id) :
            calls' = [calls EXCEPT ![c].pc = "ownerToMember",
                                   ![c].first_id = first.id,
                                   ![c].first_user = first.user_id]
     ELSE Goto(c, "delete")
  /\ UNCHANGED <<tables, last, nextGroupId, nextMembershipId, nextMessageId,
                 nextPostId, nextCommentId, likes, nextLikeId>>

leaveGroupSetOwner(c) ==
  /\ calls[c].op = "leaveGroup"
  /\ calls[c].pc \in {"ownerToAdmin", "ownerToMember"}
  /\ groups' = SetOwner(calls[c].group_id, calls[c].first_user)
  /\ Goto(c, IF calls[c].pc = "ownerToAdmin" THEN "delete" ELSE "promote")
  /\ UNCHANGED <<users, memberships, messages, posts, comments, last,
                 nextGroupId, nextMembershipId, nextMessageId, nextPostId,
                 nextCommentId, likes, nextLikeId>>

leaveGroupPromote(c) ==
  /\ InFlight(c, "leaveGroup", "promote")
  /\ memberships' = Promote(memberships, calls[c].first_id)
  /\ Goto(c, "delete")
  /\ UNCHANGED <<users, groups, messages, posts, comments, last,
                 nextGroupId, nextMembershipId, nextMessageId, nextPostId,
                 nextCommentId, likes, nextLikeId>>

leaveGroupDelete(c) ==
  /\ InFlight(c, "leaveGroup", "delete")
  /\ memberships' =
       RemovePair(memberships, calls[c].group_id, calls[c].user_id)
  /\ Goto(c, "count")
  /\ UNCHANGED <<users, groups, messages, posts, comments, last,
                 nextGroupId, nextMembershipId, nextMessageId, nextPostId,
                 nextCommentId, likes, nextLikeId>>

leaveGroupDecrement(c) ==
  /\ InFlight(c, "leaveGroup", "count")
  /\ groups' = AddToCount(calls[c].group_id, -1)
  /\ Returns(c, "leaveGroup", calls[c].group_id, calls[c].user_id, "ok")
  /\ UNCHANGED <<users, memberships, messages, posts, comments, nextGroupId,
                 nextMembershipId, nextMessageId, nextPostId, nextCommentId,
                 likes, nextLikeId>>

\* deleteUser among them: its transaction, committed at one instant.
deleteUserCommits(c, userId, adminId) ==
  /\ Free(c)
  /\ deleteUserEffect(userId, adminId)
  /\ calls' = [calls EXCEPT ![c] = [Idle EXCEPT !.pc = "done"]]

\* --------------------------------------------------------------- updateUser
\* Of the columns updateUser can set, only is_active is represented;
\* isActive is "undefined" when the input leaves the field out.
updateUser(id, isActive) ==
  /\ IF ~UserExists(id)
     THEN /\ last' = Failed("updateUser", "UserNotFound")
          /\ UNCHANGED users
     ELSE /\ users' = IF isActive = "undefined" THEN users
                      ELSE [users EXCEPT ![id].is_active = (isActive = "true")]
          /\ last' = Called("updateUser", id, 0, "ok", NoTransfer, {})
  /\ UNCHANGED <<groups, memberships, messages, posts, comments, nextGroupId,
                 nextMembershipId, nextMessageId, nextPostId, nextCommentId,
                 likes, nextLikeId>>
  /\ UNCHANGED calls

\* -------------------------------------------------------------- sendMessage
sendMessage(recipientId, senderId) ==
  /\ nextMessageId <= MaxMessages
  /\ IF ~UserExists(senderId)
     THEN /\ last' = Failed("sendMessage", "SenderNotFound")
          /\ UNCHANGED <<messages, nextMessageId>>
     ELSE IF ~UserExists(recipientId)
     THEN /\ last' = Failed("sendMessage", "RecipientNotFound")
          /\ UNCHANGED <<messages, nextMessageId>>
     ELSE IF senderId = recipientId
     THEN /\ last' = Failed("sendMessage", "CannotMessageSelf")
          /\ UNCHANGED <<messages, nextMessageId>>
     ELSE /\ messages' = messages \cup
               {[id |-> nextMessageId, sender_id |-> senderId,
                 recipient_id |-> recipientId, is_read |-> FALSE]}
          /\ nextMessageId' = nextMessageId + 1
          /\ last' = Called("sendMessage", recipientId, senderId, "ok",
                            NoTransfer, {})
  /\ UNCHANGED <<users, groups, memberships, posts, comments, nextGroupId,
                 nextMembershipId, nextPostId, nextCommentId,
                 likes, nextLikeId>>
  /\ UNCHANGED calls

\* --------------------------------------------------------------- createPost
createPost(authorId) ==
  /\ nextPostId <= MaxPosts
  /\ IF ~UserExists(authorId)
     THEN /\ last' = Failed("createPost", "ForeignKeyViolation")
          /\ UNCHANGED <<posts, nextPostId>>
     ELSE /\ posts' = [i \in DOMAIN posts \cup {nextPostId} |->
                         IF i = nextPostId
                         THEN [author_id |-> authorId, content |-> nextPostId,
                               likes_count |-> 0, comments_count |-> 0,
                               updated_at |-> Created]
                         ELSE posts[i]]
          /\ nextPostId' = nextPostId + 1
          /\ last' = Called("createPost", authorId, nextPostId, "ok",
                            NoTransfer, {})
  /\ UNCHANGED <<users, groups, memberships, messages, comments, nextGroupId,
                 nextMembershipId, nextMessageId, nextCommentId,
                 likes, nextLikeId>>
  /\ UNCHANGED calls

\* ------------------------------------------------------------ createComment
createComment(postId, authorId) ==
  /\ nextCommentId <= MaxComments
  /\ IF postId \notin DOMAIN posts
     THEN /\ last' = Failed("createComment", "PostNotFound")
          /\ UNCHANGED <<posts, comments, nextCommentId, likes, nextLikeId>>
     ELSE IF ~UserExists(authorId)
     THEN /\ last' = Failed("createComment", "ForeignKeyViolation")
          /\ UNCHANGED <<posts, comments, nextCommentId, likes, nextLikeId>>
     ELSE /\ comments' = [i \in DOMAIN comments \cup {nextCommentId} |->
                            IF i = nextCommentId
                            THEN [post_id |-> postId, author_id |-> authorId,
                                  content |-> nextCommentId,
                                  updated_at |-> Created]
                            ELSE comments[i]]
          /\ posts' = [posts EXCEPT ![postId].comments_count = @ + 1,
                                    ![postId].updated_at = Touched]
          /\ nextCommentId' = nextCommentId + 1
          /\ last' = Called("createComment", postId, authorId, "ok",
                            NoTransfer, {})
  /\ UNCHANGED <<users, groups, memberships, messages, nextGroupId,
                 nextMembershipId, nextMessageId, nextPostId>>
  /\ UNCHANGED <<calls, likes, nextLikeId>>

\* ----------------------------------------------------------------- likePost
\* the lookup of an existing like finding nothing
existingLikeUnseen(postId, userId) == {}

\* select from post_likes where post_id = postId and user_id = userId
existingLike(postId, userId) ==
  {l \in likes : l.post_id = postId /\ l.user_id = userId}

\* A likePost call that returned row.
Liked(postId, userId, row) ==
  [op |-> "likePost", a |-> postId, b |-> userId, result |-> "ok",
   transfer |-> NoTransfer, left |-> {}, row |-> row]

\* The row likePost inserts.
newLike(postId, userId) ==
  [id |-> nextLikeId, post_id |-> postId, user_id |-> userId]

likePost(postId, userId) ==
  /\ IF existingLike(postId, userId) # {}
     THEN \E row \in existingLike(postId, userId) :
            /\ last' = Liked(postId, userId, row)
            /\ UNCHANGED <<posts, likes, nextLikeId>>
     ELSE IF postId \notin DOMAIN posts
     THEN /\ last' = Failed("likePost", "PostNotFound")
          /\ UNCHANGED <<posts, likes, nextLikeId>>
     ELSE IF ~UserExists(userId)
     THEN /\ last' = Failed("likePost", "ForeignKeyViolation")
          /\ UNCHANGED <<posts, likes, nextLikeId>>
     ELSE /\ nextLikeId <= MaxLikes
          /\ likes' = likes \cup {newLike(postId, userId)}
          /\ nextLikeId' = nextLikeId + 1
          /\ posts' = [posts EXCEPT
                         ![postId].likes_count = posts[postId].likes_count + 1]
          /\ last' = Liked(postId, userId, newLike(postId, userId))
  /\ UNCHANGED <<users, groups, memberships, messages, comments, nextGroupId,
                 nextMembershipId, nextMessageId, nextPostId, nextCommentId>>
  /\ UNCHANGED calls

\* --------------------------------------------------------------- unlikePost
\* the delete taking every like of the post
RemoveLikesOfPost(ls, postId, userId) == {l \in ls : l.post_id # postId}

\* delete from post_likes where post_id = postId and user_id = userId
RemoveLike(ls, postId, userId) ==
  {l \in ls : ~(l.post_id = postId /\ l.user_id = userId)}

\* Math.max(0, n - 1 || 0)
DecrementLikes(n) ==
  LET orZero == IF n - 1 = 0 THEN 0 ELSE n - 1
  IN IF orZero > 0 THEN orZero ELSE 0

unlikePost(postId, userId) ==
  /\ IF existingLike(postId, userId) = {}
     THEN UNCHANGED <<posts, likes>>
     ELSE /\ likes' = RemoveLike(likes, postId, userId)
          /\ posts' = [p \in DOMAIN posts |->
                         IF p = postId
                         THEN [posts[p] EXCEPT !.likes_count =
                                 DecrementLikes(posts[p].likes_count)]
                         ELSE posts[p]]
  /\ last' = Called("unlikePost", postId, userId, "ok", NoTransfer, {})
  /\ UNCHANGED <<users, groups, memberships, messages, comments, nextGroupId,
                 nextMembershipId, nextMessageId, nextPostId, nextCommentId,
                 nextLikeId>>
  /\ UNCHANGED calls

\* ------------------------------------- likePost and unlikePost, concurrently
\* A like request in flight: the post, the user, the statement it is about
\* to issue, and the likes_count its SELECT of the post returned.
LikeStarts(c, op, postId, userId, pc) ==
  calls' = [calls EXCEPT ![c] = [Idle EXCEPT !.op = op, !.post_id = postId,
                                              !.user_id = userId, !.pc = pc]]

\* UPDATE posts SET likes_count = n WHERE id = postId
SetLikesCount(postId, n) ==
  [p \in DOMAIN posts |->
     IF p = postId THEN [posts[p] EXCEPT !.likes_count = n] ELSE posts[p]]

\* likePost, statement by statement
likePostSelectLike(c, postId, userId) ==
  /\ Free(c)
  /\ IF existingLike(postId, userId) # {}
     THEN \E row \in existingLike(postId, userId) :
            /\ LikeStarts(c, "likePost", postId, userId, "done")
            /\ last' = Liked(postId, userId, row)
     ELSE /\ LikeStarts(c, "likePost", postId, userId, "post")
          /\ UNCHANGED last
  /\ UNCHANGED <<tables, likes, nextGroupId, nextMembershipId, nextMessageId,
                 nextPostId, nextCommentId, nextLikeId>>

likePostSelectPost(c) ==
  /\ InFlight(c, "likePost", "post")
  /\ IF calls[c].post_id \notin DOMAIN posts
     THEN /\ Goto(c, "done")
          /\ last' = Failed("likePost", "PostNotFound")
     ELSE /\ calls' = [calls EXCEPT
                         ![c].likes_count = posts[calls[c].post_id].likes_count,
                         ![c].pc = "insert"]
          /\ UNCHANGED last
  /\ UNCHANGED <<tables, likes, nextGroupId, nextMembershipId, nextMessageId,
                 nextPostId, nextCommentId, nextLikeId>>

likePostInsert(c) ==
  /\ InFlight(c, "likePost", "insert")
  /\ IF ~UserExists(calls[c].user_id) \/ calls[c].post_id \notin DOMAIN posts
     THEN /\ Goto(c, "done")
          /\ last' = Failed("likePost", "ForeignKeyViolation")
          /\ UNCHANGED <<likes, nextLikeId>>
     ELSE /\ likes' = likes \cup
                        {newLike(calls[c].post_id, calls[c].user_id)}
          /\ nextLikeId' = nextLikeId + 1
          /\ calls' = [calls EXCEPT ![c].first_id = nextLikeId,
                                    ![c].pc = "count"]
          /\ UNCHANGED last
  /\ UNCHANGED <<tables, nextGroupId, nextMembershipId, nextMessageId,
                 nextPostId, nextCommentId>>

\* likes_count is written as the value read before the INSERT, plus one.
likePostSetCount(c) ==
  /\ InFlight(c, "likePost", "count")
  /\ posts' = SetLikesCount(calls[c].post_id, calls[c].likes_count + 1)
  /\ Goto(c, "done")
  /\ last' = Liked(calls[c].post_id, calls[c].user_id,
                   [id |-> calls[c].first_id, post_id |-> calls[c].post_id,
                    user_id |-> calls[c].user_id])
  /\ UNCHANGED <<users, groups, memberships, messages, comments, likes,
                 nextGroupId, nextMembershipId, nextMessageId, nextPostId,
                 nextCommentId, nextLikeId>>

\* unlikePost, statement by statement
unlikePostSelectLike(c, postId, userId) ==
  /\ Free(c)
  /\ IF existingLike(postId, userId) = {}
     THEN /\ LikeStarts(c, "unlikePost", postId, userId, "done")
          /\ last' = Called("unlikePost", postId, userId, "ok", NoTransfer,
                            {})
     ELSE /\ LikeStarts(c, "unlikePost", postId, userId, "delete")
          /\ UNCHANGED last
  /\ UNCHANGED <<tables, likes, nextGroupId, nextMembershipId, nextMessageId,
                 nextPostId, nextCommentId, nextLikeId>>

unlikePostDelete(c) ==
  /\ InFlight(c, "unlikePost", "delete")
  /\ likes' = RemoveLike(likes, calls[c].post_id, calls[c].user_id)
  /\ Goto(c, "post")
  /\ UNCHANGED <<tables, last, nextGroupId, nextMembershipId, nextMessageId,
                 nextPostId, nextCommentId, nextLikeId>>

\* the SELECT of the post inside the UPDATE's set clause
unlikePostSelectPost(c) ==
  /\ InFlight(c, "unlikePost", "post")
  /\ calls' = [calls EXCEPT
                 ![c].likes_count = IF calls[c].post_id \in DOMAIN posts
                                    THEN posts[calls[c].post_id].likes_count
                                    ELSE 1,
                 ![c].pc = "count"]
  /\ UNCHANGED <<tables, likes, last, nextGroupId, nextMembershipId,
                 nextMessageId, nextPostId, nextCommentId, nextLikeId>>

unlikePostSetCount(c) ==
  /\ InFlight(c, "unlikePost", "count")
  /\ posts' = SetLikesCount(calls[c].post_id,
                            DecrementLikes(calls[c].likes_count))
  /\ Goto(c, "done")
  /\ last' = Called("unlikePost", calls[c].post_id, calls[c].user_id, "ok",
                    NoTransfer, {})
  /\ UNCHANGED <<users, groups, memberships, messages, comments, likes,
                 nextGroupId, nextMembershipId, nextMessageId, nextPostId,
                 nextCommentId, nextLikeId>>

\* --------------------------------------------------------------- deletePost
\* the ownership check left out
MayDeleteAnyPost(postId, userId, isAdmin) == TRUE

\* isAdmin || post.author_id === userId
MayDelete(postId, userId, isAdmin) ==
  isAdmin \/ posts[postId].author_id = userId

deletePost(postId, userId, isAdmin) ==
  /\ IF postId \notin DOMAIN posts
     THEN /\ last' = Failed("deletePost", "PostNotFound")
          /\ UNCHANGED <<posts, comments, likes>>
     ELSE IF ~MayDelete(postId, userId, isAdmin)
     THEN /\ last' = Failed("deletePost", "Unauthorized")
          /\ UNCHANGED <<posts, comments, likes>>
     ELSE /\ comments' = [i \in {j \in DOMAIN comments :
                                   comments[j].post_id # postId} |->
                            comments[i]]
          /\ likes' = {l \in likes : l.post_id # postId}
          /\ posts' = [p \in DOMAIN posts \ {postId} |-> posts[p]]
          /\ last' = Called("deletePost", postId, userId, "ok", NoTransfer,
                            {})
  /\ UNCHANGED <<users, groups, memberships, messages, nextGroupId,
                 nextMembershipId, nextMessageId, nextPostId, nextCommentId,
                 nextLikeId>>
  /\ UNCHANGED calls

Next ==
  \/ \E o \in UserInputs : createGroup(o)
  \/ \E g \in GroupIds, u \in UserInputs : joinGroup(g, u)
  \/ \E g \in GroupIds, u \in UserInputs : leaveGroup(g, u)
  \/ \E t \in UserInputs, a \in UserInputs : deleteUser(t, a)

Spec == Init /\ [][Next]_vars

\* The specifications below start from the fixture of the cascade test: a
\* group owned by the second user inserted (the test's targetUser) in which
\* every other user is enrolled.  Each exercises one part of the cascade.
InitCascade ==
  /\ Init
  /\ SeededGroup(2, UserIds \ {2}, {})

\* deleteUser over private messages
NextMessages ==
  \/ \E t \in UserInputs, a \in UserInputs : deleteUser(t, a)
  \/ \E r \in UserInputs, s \in UserInputs : sendMessage(r, s)

SpecMessages == InitCascade /\ [][NextMessages]_vars

\* deleteUser over posts and comments
NextContent ==
  \/ \E t \in UserInputs, a \in UserInputs : deleteUser(t, a)
  \/ \E a \in UserInputs : createPost(a)
  \/ \E p \in 1..MaxPosts, a \in UserInputs : createComment(p, a)

SpecContent == InitCascade /\ [][NextContent]_vars

\* deleteUser with accounts switched on and off by updateUser
NextAuth ==
  \/ \E t \in UserInputs, a \in UserInputs : deleteUser(t, a)
  \/ \E u \in UserInputs, v \in {"undefined", "true", "false"} :
       updateUser(u, v)

SpecAuth == Init /\ [][NextAuth]_vars

\* deleteUser calls of which some meet a storage error part-way
NextCascadeFaults ==
  \/ \E t \in UserInputs, a \in UserInputs : deleteUser(t, a)
  \/ \E t \in UserInputs, a \in UserInputs, k \in CascadeStatements :
       deleteUserStorageError(t, a, k)

SpecCascadeFaults == Init /\ [][NextCascadeFaults]_vars

\* leaveGroup calls of which some meet a storage error part-way
NextLeaveFaults ==
  \/ \E g \in GroupIds, u \in UserInputs : leaveGroup(g, u)
  \/ \E g \in GroupIds, u \in UserInputs, k \in 1..4 :
       leaveGroupStorageError(g, u, k)

SpecLeaveFaults == Init /\ [][NextLeaveFaults]_vars

\* createGroup calls of which some meet a storage error part-way, among
\* joinGroup and leaveGroup calls
NextCreateFaults ==
  \/ \E o \in UserInputs : createGroup(o)
  \/ \E o \in UserInputs, k \in 1..2 : createGroupStorageError(o, k)
  \/ \E g \in GroupIds, u \in UserInputs : joinGroup(g, u)
  \/ \E g \in GroupIds, u \in UserInputs : leaveGroup(g, u)

SpecCreateFaults == Init /\ [][NextCreateFaults]_vars

\* Likes given and taken back, no group around
NextLikes ==
  \/ \E a \in UserInputs : createPost(a)
  \/ \E p \in 1..MaxPosts, u \in UserInputs : likePost(p, u)
  \/ \E p \in 1..MaxPosts, u \in UserInputs : unlikePost(p, u)

\* They start with no post and no group.
InitNoGroups ==
  /\ Init
  /\ groups = << >>

SpecLikes == InitNoGroups /\ [][NextLikes]_vars

\* A post as the deletePost tests seed it: written by author, with one
\* comment of each commenter and one like of each liker.
SeededPost(author, commenters, likers) ==
  /\ posts = [p \in {1} |->
                [author_id |-> author, content |-> 1,
                 likes_count |-> Cardinality(likers),
                 comments_count |-> Cardinality(commenters),
                 updated_at |-> Created]]
  /\ comments = [i \in 1..Cardinality(commenters) |->
                   [post_id |-> 1,
                    author_id |-> CHOOSE u \in commenters :
                                    Rank(u, commenters) = i - 1,
                    content |-> i, updated_at |-> Created]]
  /\ likes = {[id |-> 1 + Rank(u, likers), post_id |-> 1, user_id |-> u] :
               u \in likers}
  /\ nextPostId = 2
  /\ nextCommentId = 1 + Cardinality(commenters)
  /\ nextLikeId = 1 + Cardinality(likers)

NoPosts ==
  /\ posts = << >>
  /\ comments = << >>
  /\ likes = {}
  /\ nextPostId = 1
  /\ nextCommentId = 1
  /\ nextLikeId = 1

InitPosts ==
  /\ users = usersTable
  /\ EmptyGroups
  /\ messages = {}
  /\ nextMessageId = 1
  /\ \/ NoPosts
     \/ \E author \in UserIds :
          \E commenters \in SUBSET UserIds : \E likers \in SUBSET UserIds :
            /\ Cardinality(commenters) <= MaxComments
            /\ Cardinality(likers) <= MaxLikes
            /\ SeededPost(author, commenters, likers)
  /\ last = Called("init", 0, 0, "ok", NoTransfer, {})
  /\ calls = [c \in CallIds |-> Idle]

\* Posts deleted with their comments and likes
NextPosts ==
  \/ \E a \in UserInputs : createPost(a)
  \/ \E p \in 1..MaxPosts, a \in UserInputs : createComment(p, a)
  \/ \E p \in 1..MaxPosts, u \in UserInputs, isAdmin \in BOOLEAN :
       deletePost(p, u, isAdmin)

SpecPosts == InitPosts /\ [][NextPosts]_vars

\* deleteUser among the calls a deactivated account can still be named in
NextAfterDelete ==
  \/ \E g \in GroupIds, u \in UserInputs : joinGroup(g, u)
  \/ \E g \in GroupIds, u \in UserInputs : leaveGroup(g, u)
  \/ \E r \in UserInputs, s \in UserInputs : sendMessage(r, s)
  \/ \E t \in UserInputs, a \in UserInputs : deleteUser(t, a)

\* They start from a group its owner, the second user, is alone in.
InitAfterDelete ==
  /\ Init
  /\ SeededGroup(2, {}, {})

SpecAfterDelete == InitAfterDelete /\ [][NextAfterDelete]_vars

\* likePost and unlikePost requests whose statements interleave, on a post
\* some users have liked
InitLikes ==
  /\ InitPosts
  /\ posts # << >>
  /\ comments = << >>

NextConcurrentLikes ==
  \/ \E c \in CallIds, p \in 1..MaxPosts, u \in UserInputs :
       likePostSelectLike(c, p, u)
  \/ \E c \in CallIds : likePostSelectPost(c)
  \/ \E c \in CallIds : likePostInsert(c)
  \/ \E c \in CallIds : likePostSetCount(c)
  \/ \E c \in CallIds, p \in 1..MaxPosts, u \in UserInputs :
       unlikePostSelectLike(c, p, u)
  \/ \E c \in CallIds : unlikePostDelete(c)
  \/ \E c \in CallIds : unlikePostSelectPost(c)
  \/ \E c \in CallIds : unlikePostSetCount(c)

SpecConcurrentLikes == InitLikes /\ [][NextConcurrentLikes]_vars

\* Requests whose statements interleave
NextConcurrent ==
  \/ \E c \in CallIds, g \in GroupIds, u \in UserInputs :
       joinGroupSelectUser(c, g, u)
  \/ \E c \in CallIds : joinGroupSelectGroup(c)
  \/ \E c \in CallIds : joinGroupSelectMembership(c)
  \/ \E c \in CallIds : joinGroupInsert(c)
  \/ \E c \in CallIds : joinGroupIncrement(c)
  \/ \E c \in CallIds, g \in GroupIds, u \in UserInputs :
       leaveGroupSelectUser(c, g, u)
  \/ \E c \in CallIds : leaveGroupSelectGroup(c)
  \/ \E c \in CallIds : leaveGroupSelectMembership(c)
  \/ \E c \in CallIds : leaveGroupSelectAdmins(c)
  \/ \E c \in CallIds : leaveGroupSelectMembers(c)
  \/ \E c \in CallIds : leaveGroupSetOwner(c)
  \/ \E c \in CallIds : leaveGroupPromote(c)
  \/ \E c \in CallIds : leaveGroupDelete(c)
  \/ \E c \in CallIds : leaveGroupDecrement(c)
  \/ \E c \in CallIds, t \in UserInputs, a \in UserInputs :
       deleteUserCommits(c, t, a)

SpecConcurrent == Init /\ [][NextConcurrent]_vars

\* leaveGroup and deleteUser requests whose statements interleave
NextConcurrentLeave ==
  \/ \E c \in CallIds, g \in GroupIds, u \in UserInputs :
       leaveGroupSelectUser(c, g, u)
  \/ \E c \in CallIds : leaveGroupSelectGroup(c)
  \/ \E c \in CallIds : leaveGroupSelectMembership(c)
  \/ \E c \in CallIds : leaveGroupSelectAdmins(c)
  \/ \E c \in CallIds : leaveGroupSelectMembers(c)
  \/ \E c \in CallIds : leaveGroupSetOwner(c)
  \/ \E c \in CallIds : leaveGroupPromote(c)
  \/ \E c \in CallIds : leaveGroupDelete(c)
  \/ \E c \in CallIds : leaveGroupDecrement(c)
  \/ \E c \in CallIds, t \in UserInputs, a \in UserInputs :
       deleteUserCommits(c, t, a)

SpecConcurrentLeave == Init /\ [][NextConcurrentLeave]_vars

\* ================================================================== claims
\* Rows of a group other than those of user u, and the admins among them.
Others(g, u) == {m \in memberships : m.group_id = g /\ m.user_id # u}
OtherAdminRows(g, u) == {m \in Others(g, u) : m.is_admin}

\* The step is a completed call that removes u, the owner of group g:
\* leaveGroup(g, u) or deleteUser(u, _).
OwnerRemoved(g, u) ==
  /\ g \in DOMAIN groups
  /\ groups[g].owner_id = u
  /\ last'.result = "ok"
  /\ \/ last'.op = "leaveGroup" /\ last'.a = g /\ last'.b = u
     \/ last'.op = "deleteUser" /\ last'.a = u

\* C1: every group that exists has member_count equal to the number of
\* membership rows that reference it.
C1_MemberCountMatchesRows ==
  \A g \in DOMAIN groups :
    groups[g].member_count =
      Cardinality({m \in memberships : m.group_id = g})

\* A membership was removed from a group that still has members.
C1_Witness ==
  /\ last.op \in {"leaveGroup", "deleteUser"}
  /\ last.result = "ok"
  /\ last.left # {}
  /\ \E g \in last.left : g \in DOMAIN groups /\ groups[g].member_count >= 1

SoleOwnerLeaves(g) ==
  /\ last'.op = "leaveGroup"
  /\ last'.result = "ok"
  /\ last'.a = g
  /\ last'.b = groups[g].owner_id
  /\ \A m \in memberships : m.group_id = g => m.user_id = groups[g].owner_id

C4_AdminSucceeds ==
  [][\A g \in DOMAIN groups : \A u \in UserIds :
       (OwnerRemoved(g, u) /\ OtherAdminRows(g, u) # {})
       => /\ g \in DOMAIN groups'
          /\ \E m \in OtherAdminRows(g, u) :
               groups'[g].owner_id = m.user_id
          /\ {m \in memberships' : m.group_id = g} = Others(g, u)]_vars

\* An admin took over while a non-admin member stayed non-admin.
C4_Witness ==
  /\ last.result = "ok"
  /\ \E g \in DOMAIN groups :
       /\ last.transfer[g] = "admin"
       /\ \E m \in RowsOfGroup(g) :
            m.user_id = groups[g].owner_id /\ m.is_admin
       /\ \E m \in RowsOfGroup(g) : ~m.is_admin

\* C5: when the owner of a group is removed and the other members are all
\* non-admin, the new owner is one of them, that member's row becomes
\* admin and every other remaining row is unchanged.
C5_MemberPromoted ==
  [][\A g \in DOMAIN groups : \A u \in UserIds :
       (OwnerRemoved(g, u) /\ Others(g, u) # {} /\ OtherAdminRows(g, u) = {})
       => /\ g \in DOMAIN groups'
          /\ \E m \in Others(g, u) :
               /\ groups'[g].owner_id = m.user_id
               /\ {r \in memberships' : r.group_id = g} =
                    (Others(g, u) \ {m}) \cup {[m EXCEPT !.is_admin = TRUE]}]_vars

\* A member was promoted while another member stayed non-admin.
C5_Witness ==
  /\ last.result = "ok"
  /\ \E g \in DOMAIN groups :
       /\ last.transfer[g] = "promote"
       /\ \E m \in RowsOfGroup(g) :
            m.user_id = groups[g].owner_id /\ m.is_admin
       /\ \E m \in RowsOfGroup(g) : ~m.is_admin

\* The step is a completed deleteUser(t, _).
DeleteUserDone(t) ==
  /\ last'.op = "deleteUser"
  /\ last'.result = "ok"
  /\ last'.a = t

\* C6: after deleteUser(target, admin), every group the target owned went
\* to another admin member if there was one, else to another member who is
\* now admin, else was deleted; no group is left with the target as owner.
C6_OwnedGroupsResolved ==
  [][\A t \in UserIds :
       DeleteUserDone(t)
       => /\ \A g \in DOMAIN groups :
               groups[g].owner_id = t
               => IF OtherAdminRows(g, t) # {}
                  THEN /\ g \in DOMAIN groups'
                       /\ \E m \in OtherAdminRows(g, t) :
                            groups'[g].owner_id = m.user_id
                  ELSE IF Others(g, t) # {}
                  THEN /\ g \in DOMAIN groups'
                       /\ \E m \in Others(g, t) :
                            /\ groups'[g].owner_id = m.user_id
                            /\ [m EXCEPT !.is_admin = TRUE] \in memberships'
                  ELSE g \notin DOMAIN groups'
          /\ \A g \in DOMAIN groups' : groups'[g].owner_id # t]_vars

\* A group the target owned alone was deleted, and the target deactivated.
C6_Witness ==
  /\ last.op = "deleteUser"
  /\ last.result = "ok"
  /\ ~users[last.a].is_active
  /\ \E g \in GroupIds : last.transfer[g] = "delete" /\ g \notin DOMAIN groups

\* C7: after deleteUser(target, admin), the target has no membership row,
\* and every group in which the target was a member without owning it has
\* member_count one lower, the same owner and the same other rows.
C7_MembershipsRemoved ==
  [][\A t \in UserIds :
       DeleteUserDone(t)
       => /\ \A m \in memberships' : m.user_id # t
          /\ \A g \in DOMAIN groups :
               (/\ groups[g].owner_id # t
                /\ \E m \in memberships : m.group_id = g /\ m.user_id = t)
               => /\ g \in DOMAIN groups'
                  /\ groups'[g].member_count = groups[g].member_count - 1
                  /\ groups'[g].owner_id = groups[g].owner_id
                  /\ {m \in memberships' : m.group_id = g} = Others(g, t)]_vars

\* The target was removed from a group somebody else owns.
C7_Witness ==
  /\ last.op = "deleteUser"
  /\ last.result = "ok"
  /\ \E g \in last.left :
       /\ g \in DOMAIN groups
       /\ last.transfer[g] = "none"
       /\ groups[g].member_count >= 1
       /\ ~IsMember(g, last.a)

\* C8: after deleteUser(target, admin), no private message has the target
\* as sender or recipient, and the messages between other users are the
\* ones that were there before.
C8_MessagesRemoved ==
  [][\A t \in UserIds :
       DeleteUserDone(t)
       => /\ \A m \in messages' : m.sender_id # t /\ m.recipient_id # t
          /\ messages' \subseteq messages
          /\ \A m \in messages :
               (m.sender_id # t /\ m.recipient_id # t) => m \in messages']_vars

\* Two messages were sent; the cascade removed one and kept the other.
C8_Witness ==
  /\ last.op = "deleteUser"
  /\ last.result = "ok"
  /\ nextMessageId = 3
  /\ Cardinality(messages) = 1

\* C9: after deleteUser(target, admin), the target's user row is still
\* there with is_active = false, and no user, post or comment row is
\* removed or changes author or content.
C9_SoftDelete ==
  [][\A t \in UserIds :
       DeleteUserDone(t)
       => /\ DOMAIN users' = DOMAIN users
          /\ users'[t].is_active = FALSE
          /\ users'[t].role = users[t].role
          /\ DOMAIN posts' = DOMAIN posts
          /\ \A i \in DOMAIN posts :
               /\ posts'[i].author_id = posts[i].author_id
               /\ posts'[i].content = posts[i].content
          /\ DOMAIN comments' = DOMAIN comments
          /\ \A i \in DOMAIN comments :
               /\ comments'[i].author_id = comments[i].author_id
               /\ comments'[i].content = comments[i].content
               /\ comments'[i].post_id = comments[i].post_id]_vars

\* The deactivated user has a post and a comment, both touched.
C9_Witness ==
  /\ last.op = "deleteUser"
  /\ last.result = "ok"
  /\ ~users[last.a].is_active
  /\ \E i \in DOMAIN posts :
       posts[i].author_id = last.a /\ posts[i].updated_at = Touched
  /\ \E i \in DOMAIN comments :
       comments[i].author_id = last.a /\ comments[i].updated_at = Touched

\* C10: deleteUser(target, actor) fails with Unauthorized and changes no
\* table whenever the actor does not exist, is not an admin or is inactive,
\* whatever the target.
C10_UnauthorizedChangesNothing ==
  [][\A t \in UserInputs : \A a \in UserInputs :
       (/\ deleteUser(t, a)
        /\ ~(/\ a \in DOMAIN users
             /\ users[a].role = "admin"
             /\ users[a].is_active))
       => /\ last'.op = "deleteUser"
          /\ last'.result = "Unauthorized"
          /\ UNCHANGED tables]_vars

\* A call was refused while no admin account is active and groups exist.
C10_Witness ==
  /\ last.op = "deleteUser"
  /\ last.result = "Unauthorized"
  /\ \A u \in DOMAIN users : users[u].role = "admin" => ~users[u].is_active
  /\ DOMAIN groups # {}

\* C11: with an authorized acting admin, deleteUser fails with UserNotFound
\* when the target does not exist and with CannotDeleteAdmin when the
\* target's role is admin, both without changing any table; no deleteUser
\* call changes is_active of a user whose role is admin.
C11_TargetChecked ==
  [][\A t \in UserInputs : \A a \in UserInputs :
       deleteUser(t, a)
       => /\ (/\ a \in DOMAIN users
               /\ users[a].role = "admin"
               /\ users[a].is_active)
              => /\ t \notin DOMAIN users
                    => /\ last'.op = "deleteUser"
                       /\ last'.result = "UserNotFound"
                       /\ UNCHANGED tables
                 /\ (t \in DOMAIN users /\ users[t].role = "admin")
                    => /\ last'.op = "deleteUser"
                       /\ last'.result = "CannotDeleteAdmin"
                       /\ UNCHANGED tables
          /\ \A u \in DOMAIN users :
               users[u].role = "admin"
               => users'[u].is_active = users[u].is_active]_vars

\* An active admin was refused the removal of an admin while groups exist.
C11_Witness ==
  /\ last.op = "deleteUser"
  /\ last.result = "CannotDeleteAdmin"
  /\ \E u \in DOMAIN users : users[u].role = "admin" /\ users[u].is_active
  /\ DOMAIN groups # {}

\* C12: joinGroup for a (group, user) pair that already has a membership
\* row fails with AlreadyMember, and afterwards the pair still has exactly
\* one row and member_count is what it was.
C12_SecondJoinRefused ==
  [][\A g \in GroupIds : \A u \in UserIds :
       (/\ joinGroup(g, u)
        /\ g \in DOMAIN groups
        /\ \E m \in memberships : m.group_id = g /\ m.user_id = u)
       => /\ last'.op = "joinGroup"
          /\ last'.result = "AlreadyMember"
          /\ Cardinality({m \in memberships' :
                            m.group_id = g /\ m.user_id = u}) = 1
          /\ memberships' = memberships
          /\ groups'[g].member_count = groups[g].member_count]_vars

\* A call was refused in a group whose rows all come from joinGroup: its
\* owner left it empty before anybody joined.
C12_Witness ==
  /\ last.op = "joinGroup"
  /\ last.result = "AlreadyMember"
  /\ \A g \in DOMAIN groups :
       /\ RowsOfGroup(g) # {}
       /\ ~IsMember(g, groups[g].owner_id)
  /\ DOMAIN groups # {}

\* C13: a successful joinGroup(group, user) adds exactly one row, for
\* (group, user) with is_admin = false, raises that group's member_count by
\* one and changes nothing else of any group or membership row.
C13_JoinAddsOneRow ==
  [][\A g \in GroupIds : \A u \in UserIds :
       (joinGroup(g, u) /\ last'.result = "ok")
       => /\ \E r \in memberships' :
               /\ r \notin memberships
               /\ \A m \in memberships : m.id # r.id
               /\ r.group_id = g
               /\ r.user_id = u
               /\ r.is_admin = FALSE
               /\ memberships' = memberships \cup {r}
          /\ Cardinality({m \in memberships' :
                            m.group_id = g /\ m.user_id = u}) = 1
          /\ DOMAIN groups' = DOMAIN groups
          /\ groups'[g].member_count = groups[g].member_count + 1
          /\ groups'[g].owner_id = groups[g].owner_id
          /\ \A h \in DOMAIN groups \ {g} : groups'[h] = groups[h]]_vars

\* A user joined a group that has its owner enrolled.
C13_Witness ==
  /\ last.op = "joinGroup"
  /\ last.result = "ok"
  /\ last.a \in DOMAIN groups
  /\ IsMember(last.a, groups[last.a].owner_id)
  /\ \E m \in RowsOfPair(last.a, last.b) :
       ~m.is_admin /\ m.id = nextMembershipId - 1
  /\ groups[last.a].member_count = 2

\* C14: leaveGroup looks up the user, then the group, then the membership;
\* the first lookup that finds nothing decides the error (UserNotFound,
\* GroupNotFound, NotAMember), and a failed call changes no table.
C14_LeaveChecksInOrder ==
  [][\A g \in GroupIds : \A u \in UserInputs :
       leaveGroup(g, u)
       => /\ last'.op = "leaveGroup"
          /\ last'.result =
               IF u \notin DOMAIN users THEN "UserNotFound"
               ELSE IF g \notin DOMAIN groups THEN "GroupNotFound"
               ELSE IF \A m \in memberships :
                         ~(m.group_id = g /\ m.user_id = u)
                    THEN "NotAMember"
               ELSE "ok"
          /\ last'.result # "ok" => UNCHANGED tables]_vars

\* A call named a user and a group that both do not exist, and the missing
\* user decided the error.
C14_Witness ==
  /\ last.op = "leaveGroup"
  /\ last.result = "UserNotFound"
  /\ DOMAIN groups = {}

\* C15: a successful leaveGroup by a member who is not the owner deletes
\* that member's row and no other, lowers member_count by one, and leaves
\* owner_id and every other row unchanged.
C15_MemberLeaves ==
  [][\A g \in GroupIds : \A u \in UserIds :
       (/\ leaveGroup(g, u)
        /\ last'.result = "ok"
        /\ groups[g].owner_id # u)
       => /\ Cardinality(memberships \ memberships') = 1
          /\ \A m \in memberships \ memberships' :
               m.group_id = g /\ m.user_id = u
          /\ memberships' \subseteq memberships
          /\ groups' = [groups EXCEPT
                          ![g].member_count = groups[g].member_count - 1]]_vars

\* A member left a group in which the owner and another member remain.
C15_Witness ==
  /\ last.op = "leaveGroup"
  /\ last.result = "ok"
  /\ last.transfer[last.a] = "none"
  /\ last.a \in DOMAIN groups
  /\ IsMember(last.a, groups[last.a].owner_id)
  /\ ~IsMember(last.a, last.b)
  /\ groups[last.a].owner_id # last.b
  /\ groups[last.a].member_count = 2

\* C16: when a statement of deleteUser's transaction fails, every table is
\* after the call what it was before it.
C16_CascadeAllOrNothing ==
  [][(last'.op = "deleteUser" /\ last'.result = "StorageError")
     => UNCHANGED tables]_vars

\* The call failed after the ownership loop had written a group the target
\* owns, and the target is still active and still owns it.
C16_Witness ==
  /\ last.op = "deleteUser"
  /\ last.result = "StorageError"
  /\ last.b >= 3
  /\ users[last.a].is_active
  /\ \E g \in DOMAIN groups :
       groups[g].owner_id = last.a /\ groups[g].member_count >= 2

\* C17 as stated: when a write of leaveGroup by the owner of a group with
\* other members fails, none of the call's writes is in the tables: the
\* ownership transfer (or promotion), the membership delete and the
\* member_count decrement are applied together or not at all.
C17_LeaveAllOrNothing ==
  [][(/\ last'.op = "leaveGroup"
      /\ last'.result = "StorageError"
      /\ groups[last'.a].owner_id = last'.b
      /\ Others(last'.a, last'.b) # {})
     => UNCHANGED tables]_vars

\* Every request has returned.
Quiescent == \A c \in CallIds : calls[c].pc \in {"idle", "done"}

\* C18 as stated, for the groups somebody is still enrolled in (the group
\* its last member left is C3): once every concurrent leaveGroup and
\* deleteUser call has returned, each such group has an owner_id that
\* refers to a user who holds a membership row in it.
C18_OwnerEnrolledAfterCalls ==
  Quiescent
  => \A g \in DOMAIN groups :
       RowsOfGroup(g) # {} => IsMember(g, groups[g].owner_id)

\* C19 as stated: in every state another request can see, during or after
\* concurrent joinGroup, leaveGroup and deleteUser calls, member_count of
\* each group is the number of its membership rows.
C19_CountMatchesRowsAlways ==
  \A g \in DOMAIN groups :
    Cardinality(RowsOfGroup(g)) = groups[g].member_count

\* C20 as stated: in every reachable state, concurrent joinGroup calls
\* included, a (user, group) pair has at most one membership row.
C20_OneRowPerPair ==
  \A g \in GroupIds : \A u \in UserIds :
    Cardinality(RowsOfPair(g, u)) <= 1

\* C21 as stated: when the owner of a group is removed, the new owner is a
\* function of the membership rows that remain: from one state of the
\* tables, leaveGroup by the owner cannot end with one new owner in one
\* run and another in the next, and neither can deleteUser of the owner.
C21_SuccessorDetermined ==
  \A g \in DOMAIN groups : \A v \in UserIds : \A w \in UserIds :
    /\ (/\ ENABLED (/\ leaveGroup(g, groups[g].owner_id)
                    /\ last'.result = "ok"
                    /\ groups'[g].owner_id = v)
        /\ ENABLED (/\ leaveGroup(g, groups[g].owner_id)
                    /\ last'.result = "ok"
                    /\ groups'[g].owner_id = w))
       => v = w
    /\ (/\ ENABLED (/\ \E a \in UserIds : deleteUser(groups[g].owner_id, a)
                    /\ last'.result = "ok"
                    /\ g \in DOMAIN groups'
                    /\ groups'[g].owner_id = v)
        /\ ENABLED (/\ \E a \in UserIds : deleteUser(groups[g].owner_id, a)
                    /\ last'.result = "ok"
                    /\ g \in DOMAIN groups'
                    /\ groups'[g].owner_id = w))
       => v = w

\* What a call leaves of group g: whether the group row exists, its
\* owner_id and member_count, and its membership rows.
GroupResult(gs, ms, g) ==
  IF g \in DOMAIN gs
  THEN [exists |-> TRUE, owner_id |-> gs[g].owner_id,
        member_count |-> gs[g].member_count,
        rows |-> {m \in ms : m.group_id = g}]
  ELSE [exists |-> FALSE, owner_id |-> 0, member_count |-> 0,
        rows |-> {m \in ms : m.group_id = g}]

\* The results leaveGroup(g, u) can leave of group g, one for each row the
\* storage can return first.
leaveGroupResults(g, u) ==
  {GroupResult(db.groups, db.memberships, g) :
     db \in {ExecuteAll(leaveGroupWrites(g, u, first),
                        [groups |-> groups, memberships |-> memberships]) :
               first \in leaveGroupFirst(g, u)}}

\* The results deleteUser(u, admin) can leave of group g.
deleteUserResults(g, u) ==
  {GroupResult(Recount(GroupsAfterTransfer(first, u),
                       RemoveUser(MembershipsAfterTransfer(first, u), u)),
               RemoveUser(MembershipsAfterTransfer(first, u), u), g) :
     first \in {f \in [Heirs(u) -> memberships] : FirstFound(f, u)}}

C23_SoleOwnerLeaveSucceeds ==
  [][\A g \in DOMAIN groups :
       (/\ last'.op = "leaveGroup"
        /\ last'.a = g
        /\ last'.b = groups[g].owner_id
        /\ RowsOfGroup(g) # {}
        /\ RowsOfGroup(g) = RowsOfPair(g, groups[g].owner_id))
       => /\ last'.result = "ok"
          /\ g \in DOMAIN groups'
          /\ groups'[g].member_count = 0
          /\ RowsOfGroup(g)' = {}]_vars

\* A sole owner has left: the group is there, empty, with member_count 0.
C23_Witness ==
  /\ last.op = "leaveGroup"
  /\ last.result = "ok"
  /\ last.a \in DOMAIN groups
  /\ last.transfer[last.a] = "ownerless"
  /\ groups[last.a].member_count = 0
  /\ RowsOfGroup(last.a) = {}

\* C24: a createGroup call that succeeds adds one group row, with owner_id
\* the caller and member_count 1, and one membership row, of that group and
\* that user with is_admin = true, and changes nothing else; it succeeds
\* only for an owner that exists; a call that fails, the INSERT of the
\* membership throwing included, leaves neither row behind.
C24_GroupAndMembershipTogether ==
  [][last'.op = "createGroup"
     => IF last'.result = "ok"
        THEN /\ last'.a \in DOMAIN users
             /\ \E g \in DOMAIN groups' \ DOMAIN groups :
                  /\ DOMAIN groups' = DOMAIN groups \cup {g}
                  /\ groups'[g] = [owner_id |-> last'.a, member_count |-> 1]
                  /\ \A h \in DOMAIN groups : groups'[h] = groups[h]
                  /\ memberships \subseteq memberships'
                  /\ Cardinality(memberships' \ memberships) = 1
                  /\ \A m \in memberships' \ memberships :
                       /\ m.group_id = g
                       /\ m.user_id = last'.a
                       /\ m.is_admin
             /\ UNCHANGED <<users, messages, posts, comments>>
        ELSE UNCHANGED tables]_vars

\* The INSERT of the owner's membership threw after the INSERT of the
\* group: the id was drawn, and no group row is there.
C24_Witness ==
  /\ last.op = "createGroup"
  /\ last.result = "StorageError"
  /\ last.b = 2
  /\ nextGroupId = 2
  /\ groups = << >>
  /\ memberships = {}

\* The like rows of user u on post p.
LikesOf(p, u) == {l \in likes : l.post_id = p /\ l.user_id = u}

\* C25: likePost by a user who already has a like row on the post returns
\* that row, inserts no row and leaves likes_count as it was.
C25_SecondLikeReturnsExisting ==
  [][\A p \in 1..MaxPosts : \A u \in UserInputs :
       (likePost(p, u) /\ LikesOf(p, u) # {})
       => /\ last'.result = "ok"
          /\ last'.row \in LikesOf(p, u)
          /\ likes' = likes
          /\ posts' = posts
          /\ nextLikeId' = nextLikeId]_vars

\* A user who liked the post before another user did has called likePost
\* again and got the first row back.
C25_Witness ==
  /\ last.op = "likePost"
  /\ last.result = "ok"
  /\ last.row \in likes
  /\ last.row.id + 1 < nextLikeId
  /\ posts[last.a].likes_count = 2
  /\ Cardinality({l \in likes : l.post_id = last.a}) = 2

\* C26: unlikePost by a user without a like row on the post changes
\* nothing; with one, it removes the like rows of that user on that post
\* and no other, and lowers likes_count of the post by one; likes_count is
\* never negative.
C26_UnlikeRemovesOwnLike ==
  [][/\ \A p \in 1..MaxPosts : \A u \in UserInputs :
          unlikePost(p, u)
          => IF LikesOf(p, u) = {}
             THEN UNCHANGED <<tables, likes>>
             ELSE /\ likes' = likes \ LikesOf(p, u)
                  /\ posts' = [posts EXCEPT
                                 ![p].likes_count = posts[p].likes_count - 1]
                  /\ UNCHANGED <<users, groups, memberships, messages,
                                 comments>>
     /\ \A p \in DOMAIN posts' : posts'[p].likes_count >= 0]_vars

\* One of two users who liked a post has taken the like back; the like of
\* the other is still there.
C26_Witness ==
  /\ last.op = "unlikePost"
  /\ last.result = "ok"
  /\ last.a \in DOMAIN posts
  /\ LikesOf(last.a, last.b) = {}
  /\ nextLikeId = 3
  /\ posts[last.a].likes_count = 1
  /\ \E l \in likes : l.post_id = last.a /\ l.user_id # last.b

\* C27: deletePost of a post that does not exist fails with "Post not
\* found", and of a post of another author, by a caller who is not admin,
\* with "Unauthorized", both changing nothing; every other call succeeds
\* and removes the post with all its comments and likes and no row of any
\* other post.
C27_DeletePostChecked ==
  [][\A p \in 1..MaxPosts : \A u \in UserInputs : \A isAdmin \in BOOLEAN :
       deletePost(p, u, isAdmin)
       => IF p \notin DOMAIN posts
          THEN /\ last'.result = "PostNotFound"
               /\ UNCHANGED <<tables, likes>>
          ELSE IF ~isAdmin /\ posts[p].author_id # u
          THEN /\ last'.result = "Unauthorized"
               /\ UNCHANGED <<tables, likes>>
          ELSE /\ last'.result = "ok"
               /\ DOMAIN posts' = DOMAIN posts \ {p}
               /\ \A q \in DOMAIN posts' : posts'[q] = posts[q]
               /\ DOMAIN comments' =
                    {i \in DOMAIN comments : comments[i].post_id # p}
               /\ \A i \in DOMAIN comments' : comments'[i] = comments[i]
               /\ likes' = {l \in likes : l.post_id # p}
               /\ UNCHANGED <<users, groups, memberships, messages>>]_vars

\* A post that had a comment and a like has been deleted with both.
C27_Witness ==
  /\ last.op = "deletePost"
  /\ last.result = "ok"
  /\ last.a \notin DOMAIN posts
  /\ nextCommentId > 1
  /\ nextLikeId > 1
  /\ \A i \in DOMAIN comments : comments[i].post_id # last.a
  /\ \A l \in likes : l.post_id # last.a

OwnerRowIsAdmin(g) ==
  \A m \in RowsOfPair(g, groups[g].owner_id) : m.is_admin

C29_DeactivatedStaysOut ==
  \A t \in UserIds :
    ~users[t].is_active
    => /\ \A m \in memberships : m.user_id # t
       /\ \A g \in DOMAIN groups : groups[g].owner_id # t
       /\ \A m \in messages : m.sender_id # t /\ m.recipient_id # t

\* C30 as stated: once concurrent likePost and unlikePost calls, each by
\* another user, have all returned, likes_count of every post is the
\* number of its like rows.
C30_LikesCountAfterCalls ==
  (/\ Quiescent
   /\ \A c \in CallIds : \A d \in CallIds :
        (c # d /\ calls[c].pc = "done" /\ calls[d].pc = "done")
        => calls[c].user_id # calls[d].user_id)
  => \A p \in DOMAIN posts :
       posts[p].likes_count = Cardinality({l \in likes : l.post_id = p})

=============================================================================
